---------------------------- MODULE Spec2Model ----------------------------
(***************************************************************************)
(* Model of spicychat-api's authentication core (spicy/_auth.py): the      *)
(* AuthManager with its in-memory credential slot, the token file, the     *)
(* asyncio lock, get_token and the login handshake, plus the TokenData     *)
(* model of spicy/_models.py as it is serialised to and parsed from the    *)
(* token file.                                                             *)
(***************************************************************************)
EXTENDS Integers, FiniteSets, Sequences, TLC

(***************************************************************************)
(* Program constant and model bounds.                                      *)
(***************************************************************************)
\* the safety margin of get_token's expiry test, in seconds
MARGIN == 300

\* the clock runs over 0..MaxTime
MaxTime == 2

\* the provider issues lifetimes MARGIN+1 .. MARGIN+MaxLife
MaxLife == 1

\* the provider issues at most MaxLogins credentials
MaxLogins == 2

\* the concurrent callers of one AuthManager
Procs == {"p1", "p2"}

ExpiresIn == {MARGIN + k : k \in 1..MaxLife}

(***************************************************************************)
(* JSON values as far as the token file and the token endpoint's body      *)
(* need them: strings and numbers, each tagged with its JSON type.         *)
(***************************************************************************)
JStr(s) == [t |-> "str", s |-> s, n |-> 0]

JNum(n) == [t |-> "num", s |-> "", n |-> n]

\* the absent credential (Python's None)
None == [kind |-> "none"]

\* the str fields of TokenData
StrFields == {"access_token", "id_token", "refresh_token", "scope", "token_type"}

\* pydantic's validation of TokenData(**obj): every str field present and a
\* string, expires_in present and a number, created_at a number when present
\* (fields outside the model are ignored).
TokenDataValid(obj) ==
    /\ \A f \in StrFields : f \in DOMAIN obj /\ obj[f].t = "str"
    /\ "expires_in" \in DOMAIN obj /\ obj["expires_in"].t = "num"
    /\ "created_at" \in DOMAIN obj => obj["created_at"].t = "num"

\* TokenData(**obj) at time t: created_at defaults to the current time
TokenData(obj, t) ==
    [access_token  |-> obj["access_token"].s,
     expires_in    |-> obj["expires_in"].n,
     id_token      |-> obj["id_token"].s,
     refresh_token |-> obj["refresh_token"].s,
     scope         |-> obj["scope"].s,
     token_type    |-> obj["token_type"].s,
     created_at    |-> IF "created_at" \in DOMAIN obj THEN obj["created_at"].n ELSE t]

\* the JSON object o without field f
Without(o, f) == [g \in (DOMAIN o) \ {f} |-> o[g]]

\* a serialisation that leaves created_at out
model_dump_json_NoStamp(r) ==
    [access_token  |-> JStr(r.access_token),
     expires_in    |-> JNum(r.expires_in),
     id_token      |-> JStr(r.id_token),
     refresh_token |-> JStr(r.refresh_token),
     scope         |-> JStr(r.scope),
     token_type    |-> JStr(r.token_type)]

\* token_data.model_dump_json(): the JSON object written to the token file
model_dump_json(r) ==
    [access_token  |-> JStr(r.access_token),
     expires_in    |-> JNum(r.expires_in),
     id_token      |-> JStr(r.id_token),
     refresh_token |-> JStr(r.refresh_token),
     scope         |-> JStr(r.scope),
     token_type    |-> JStr(r.token_type),
     created_at    |-> JNum(r.created_at)]

(***************************************************************************)
(* The token file: absent, or text that is not JSON ("garbage"), a cut-off *)
(* JSON document ("truncated"), JSON that is no object ("non_object"), or  *)
(* a JSON object.                                                          *)
(***************************************************************************)
NoObj == [nofile |-> JStr("")]

Absent == [kind |-> "absent", obj |-> NoObj]

Garbage == [kind |-> "garbage", obj |-> NoObj]

Truncated == [kind |-> "truncated", obj |-> NoObj]

NonObject == [kind |-> "non_object", obj |-> NoObj]

JsonObject(o) == [kind |-> "object", obj |-> o]


\* the files a previous run of the program, or anything else, may have left
InitRecords ==
    {[access_token |-> "t0", expires_in |-> e, id_token |-> "id",
      refresh_token |-> "rf", scope |-> "openid", token_type |-> "bearer",
      created_at |-> 0] : e \in ExpiresIn}

InitFiles ==
    {Absent, Garbage, Truncated, NonObject}
      \cup {JsonObject(model_dump_json(r)) : r \in InitRecords}
      \cup {JsonObject(Without(model_dump_json(r), "created_at")) : r \in InitRecords}
      \cup {JsonObject(Without(model_dump_json(r), "refresh_token")) : r \in InitRecords}
      \cup {JsonObject([model_dump_json(r) EXCEPT !["expires_in"] = JStr("soon")]) :
              r \in InitRecords}

(***************************************************************************)
(* Token store: _save_token and _load_token.                               *)
(***************************************************************************)
\* what can happen to a write of the token file: it succeeds, mkdir or open
\* raises before the file is touched, or open(.., "w") has cut the file and
\* the write or flush raises
SaveOutcomes == {"ok", "open_fails", "write_fails"}

\* _save_token(r) on file f with outcome how: the file left behind and the
\* exception raised ("" for none)
save_token(r, f, how) ==
    CASE how = "ok"          -> [file |-> JsonObject(model_dump_json(r)), raise |-> ""]
      [] how = "open_fails"  -> [file |-> f, raise |-> "OSError"]
      [] how = "write_fails" -> [file |-> Truncated, raise |-> "OSError"]

\* _load_token() on file f at time t: the value returned, the exception raised
\* ("" for none) and the file left behind. json.JSONDecodeError and TypeError
\* are caught and the file removed; pydantic's ValidationError (a ValueError)
\* is not among the caught exceptions.
load_token(f, t) ==
    CASE f.kind = "absent" ->
           [ret |-> None, raise |-> "", file |-> f]
      [] f.kind \in {"garbage", "truncated"} ->
           [ret |-> None, raise |-> "", file |-> Absent]
      [] f.kind = "non_object" ->
           [ret |-> None, raise |-> "", file |-> Absent]
      [] f.kind = "object" /\ TokenDataValid(f.obj) ->
           [ret |-> TokenData(f.obj, t), raise |-> "", file |-> f]
      [] f.kind = "object" /\ ~TokenDataValid(f.obj) ->
           [ret |-> None, raise |-> "ValidationError", file |-> f]

\* get_token's expiry test
Expired(r, t) == (t - r.created_at) > (r.expires_in - MARGIN)

(***************************************************************************)
(* State.                                                                  *)
(***************************************************************************)
VARIABLES
    token_data,   \* AuthManager._token_data: None or a TokenData
    file,         \* the content of TOKEN_FILE
    lock,         \* AuthManager._lock: "free" or the caller holding it
    cookies,      \* whether _auth_client's cookie jar holds 'kbtc'
    pc,           \* where each caller is in its call
    ret,          \* how each caller's last call ended
    now,          \* the clock
    issued,       \* how many credentials the token endpoint has issued
    invalidated,  \* access tokens of the records get_token found expired
    completed,    \* access tokens of the records whose login ran to the end of save
    log,          \* the I/O of each caller's current or last call, in order
    resp,         \* what the last step received from the network, if anything
    att,          \* the handshake's local values, and what the attempt sent and got
    chat,         \* a ChatSession and the conversation it talks to
    ev            \* the last step: who, what, the I/O it did

vars == <<token_data, file, lock, cookies, pc, ret, now, issued, invalidated,
          completed, log, resp, att, chat, ev>>

Range(q) == {q[i] : i \in DOMAIN q}

NoRet == [op |-> "none", kind |-> "none", err |-> "", msg |-> "", tok |-> None]

NoEv == [proc |-> "", act |-> "init", io |-> {}, cand |-> None]

NoResp == [kind |-> "none"]

\* the transport failed: httpx raised instead of returning a response
TransportFailure == [kind |-> "transport"]

\* login's local variables (verifier, challenge, csrf, psid, code) and, for
\* the attempt in progress, the values that went over the wire: the challenge
\* in the authorization request, the tokens the page returned, the tokens
\* posted with the OTP, the code and verifier posted to the token endpoint
NoAtt ==
    [verifier |-> "", challenge |-> "", csrf |-> "", psid |-> "", code |-> "",
     sent_challenge |-> "", page_csrf |-> "", page_psid |-> "",
     sent_csrf |-> "", sent_psid |-> "", sent_code |-> "", sent_verifier |-> ""]

\* the values secrets.token_urlsafe may return
Verifiers == {"v1", "v2"}

\* the S256 challenge of a verifier
Challenge(v) == "S256:" \o v

\* _generate_pkce with the random verifier v
generate_pkce(v) == [verifier |-> v, challenge |-> Challenge(v)]

\* the anti-forgery token and session id a page may carry
PageTokens == {[csrf |-> "c1", psid |-> "s1"], [csrf |-> "c2", psid |-> "s2"]}

\* the fields of the OTP post that come from the page
OtpRequest(a) == [csrf |-> a.csrf, psid |-> a.psid]

\* a token request that proves possession with a verifier made on the spot
TokenRequest_NewVerifier(a) ==
    [code |-> a.code, verifier |-> CHOOSE v \in Verifiers : v # a.verifier]

\* the fields of the token request that come from the attempt
TokenRequest(a) == [code |-> a.code, verifier |-> a.verifier]

\* a ChatSession as constructed for a new conversation, and the server's side
\* of it: the messages of the conversation, the ids deleted so far, the ids a
\* delete request named again after they were deleted, the next id to issue
NoChat ==
    [conversation_id |-> FALSE, history_objs |-> <<>>,
     last_user_message_id |-> 0, last_bot_message_id |-> 0,
     server |-> <<>>, deleted |-> {}, redeleted |-> {}, next_id |-> 1]

Init ==
    /\ token_data = None
    /\ file \in InitFiles
    /\ lock = "free"
    /\ cookies = FALSE
    /\ pc = [p \in Procs |-> "idle"]
    /\ ret = [p \in Procs |-> NoRet]
    /\ now = 0
    /\ issued = 0
    /\ invalidated = {}
    /\ completed = {}
    /\ log = [p \in Procs |-> <<>>]
    /\ resp = NoResp
    /\ att = NoAtt
    /\ chat = NoChat
    /\ ev = NoEv

\* a lock that lets every caller in
CanAcquire_Always(p) == TRUE

\* a lock that only login takes: get_token reads without it
CanAcquire_ReadersPass(p) == lock = "free" \/ pc[p] = "gt_wait"

\* asyncio.Lock: a caller enters `async with self._lock` only when no other
\* caller holds the lock
CanAcquire(p) == lock = "free"

(***************************************************************************)
(* get_token                                                               *)
(***************************************************************************)
\* a caller calls get_token and reaches `async with self._lock`
CallGetToken(p) ==
    /\ pc[p] = "idle"
    /\ pc' = [pc EXCEPT ![p] = "gt_wait"]
    /\ ret' = [ret EXCEPT ![p] = [NoRet EXCEPT !.op = "get_token", !.kind = "pending"]]
    /\ ev' = [proc |-> p, act |-> "call_get_token", io |-> {}, cand |-> None]
    /\ log' = [log EXCEPT ![p] = <<>>]
    /\ resp' = NoResp
    /\ UNCHANGED <<chat, token_data, file, lock, cookies, now, issued, invalidated, completed, att>>

\* an expiry branch that forgets the file
RemoveExpired_Keep(f) == f

\* what get_token does to the file when it finds the record expired
RemoveExpired(f) == Absent

\* a get_token that renews an expired credential at the token endpoint
get_token_io_Refresh(mem, expired) ==
    (IF mem = None THEN <<"load">> ELSE <<>>)
        \o (IF expired THEN <<"remove", "token_post">> ELSE <<>>)

\* a get_token that reads the token file on every call
get_token_io_AlwaysLoad(mem, expired) ==
    <<"load">> \o (IF expired THEN <<"remove">> ELSE <<>>)

\* the I/O get_token performs, in order: it reads the file when memory holds no
\* record, and removes the file when the record it found is expired
get_token_io(mem, expired) ==
    (IF mem = None THEN <<"load">> ELSE <<>>) \o (IF expired THEN <<"remove">> ELSE <<>>)

\* the body of get_token, run without suspension once the lock is acquired;
\* the lock is released on every way out
get_token(p) ==
    /\ pc[p] \in {"gt_wait", "rq_wait"}
    /\ CanAcquire(p)
    /\ LET ld   == IF token_data = None THEN load_token(file, now)
                   ELSE [ret |-> token_data, raise |-> "", file |-> file]
           cand == ld.ret
           io   == get_token_io(token_data,
                                ld.raise = "" /\ cand # None /\ Expired(cand, now))
       IN  IF ld.raise # ""
           THEN /\ ret' = [ret EXCEPT ![p] = [op |-> "get_token", kind |-> "error",
                                              err |-> ld.raise, msg |-> "", tok |-> None]]
                /\ ev' = [proc |-> p, act |-> "get_token", io |-> Range(io), cand |-> None]
                /\ log' = [log EXCEPT ![p] = io]
                /\ UNCHANGED <<token_data, file, invalidated>>
           ELSE IF cand = None
           THEN /\ token_data' = None
                /\ file' = ld.file
                /\ ret' = [ret EXCEPT ![p] = [op |-> "get_token", kind |-> "none",
                                              err |-> "", msg |-> "", tok |-> None]]
                /\ ev' = [proc |-> p, act |-> "get_token", io |-> Range(io), cand |-> None]
                /\ log' = [log EXCEPT ![p] = io]
                /\ UNCHANGED invalidated
           ELSE IF Expired(cand, now)
           THEN /\ token_data' = None
                /\ file' = RemoveExpired(ld.file)
                /\ invalidated' = invalidated \cup {cand.access_token}
                /\ ret' = [ret EXCEPT ![p] = [op |-> "get_token", kind |-> "none",
                                              err |-> "", msg |-> "", tok |-> None]]
                /\ ev' = [proc |-> p, act |-> "get_token", io |-> Range(io), cand |-> cand]
                /\ log' = [log EXCEPT ![p] = io]
           ELSE /\ token_data' = cand
                /\ file' = ld.file
                /\ ret' = [ret EXCEPT ![p] = [op |-> "get_token", kind |-> "token",
                                              err |-> "", msg |-> "", tok |-> cand]]
                /\ ev' = [proc |-> p, act |-> "get_token", io |-> Range(io), cand |-> cand]
                /\ log' = [log EXCEPT ![p] = io]
                /\ UNCHANGED invalidated
    /\ pc' = [pc EXCEPT ![p] = IF pc[p] = "rq_wait" THEN "rq_token" ELSE "idle"]
    /\ resp' = NoResp
    /\ UNCHANGED <<chat, lock, cookies, now, issued, completed, att>>

(***************************************************************************)
(* login                                                                   *)
(***************************************************************************)
LoginError(err, msg) ==
    [op |-> "login", kind |-> "error", err |-> err, msg |-> msg, tok |-> None]

LoginReturn(kind, tok) ==
    [op |-> "login", kind |-> kind, err |-> "", msg |-> "", tok |-> tok]

\* a login that gives the lock back while it awaits
Proceed_Unlocked(p, to, act, io) ==
    /\ pc' = [pc EXCEPT ![p] = to]
    /\ lock' = "free"
    /\ ev' = [proc |-> p, act |-> act, io |-> Range(io), cand |-> None]
    /\ log' = [log EXCEPT ![p] = @ \o io]
    /\ UNCHANGED ret

\* a login that posts the token exchange without fetching the redirect location
Proceed_SkipRedirect(p, to, act, io) ==
    /\ pc' = [pc EXCEPT ![p] = IF to = "await_redirect" THEN "await_token" ELSE to]
    /\ lock' = p
    /\ ev' = [proc |-> p, act |-> act, cand |-> None,
              io |-> IF to = "await_redirect" THEN {"token_post"} ELSE Range(io)]
    /\ log' = [log EXCEPT ![p] = @ \o (IF to = "await_redirect" THEN <<"token_post">>
                                       ELSE io)]
    /\ UNCHANGED ret

\* a step of login that goes on to the next await: the lock stays held
Proceed(p, to, act, io) ==
    /\ pc' = [pc EXCEPT ![p] = to]
    /\ lock' = p
    /\ ev' = [proc |-> p, act |-> act, io |-> Range(io), cand |-> None]
    /\ log' = [log EXCEPT ![p] = @ \o io]
    /\ UNCHANGED ret

\* a login that asks the caller for another code when the provider refused one
EndLogin_Retry(p, r, act, io) ==
    IF act = "submit_otp" /\ r.err = "AuthenticationError"
    THEN /\ pc' = [pc EXCEPT ![p] = "await_otp"]
         /\ lock' = p
         /\ ev' = [proc |-> p, act |-> act, io |-> {"otp_callback"}, cand |-> None]
         /\ log' = [log EXCEPT ![p] = @ \o <<"otp_callback">>]
         /\ UNCHANGED ret
    ELSE /\ pc' = [pc EXCEPT ![p] = "idle"]
         /\ lock' = "free"
         /\ ret' = [ret EXCEPT ![p] = r]
         /\ ev' = [proc |-> p, act |-> act, io |-> Range(io), cand |-> None]
         /\ log' = [log EXCEPT ![p] = @ \o io]

\* a login that releases the lock on a normal return only
EndLogin_KeepLock(p, r, act, io) ==
    /\ pc' = [pc EXCEPT ![p] = "idle"]
    /\ lock' = IF r.kind = "error" THEN p ELSE "free"
    /\ ret' = [ret EXCEPT ![p] = r]
    /\ ev' = [proc |-> p, act |-> act, io |-> Range(io), cand |-> None]
    /\ log' = [log EXCEPT ![p] = @ \o io]

\* a step that ends the login call, by return or by an exception leaving
\* `async with self._lock`: the lock is released
EndLogin(p, r, act, io) ==
    /\ pc' = [pc EXCEPT ![p] = "idle"]
    /\ lock' = "free"
    /\ ret' = [ret EXCEPT ![p] = r]
    /\ ev' = [proc |-> p, act |-> act, io |-> Range(io), cand |-> None]
    /\ log' = [log EXCEPT ![p] = @ \o io]

\* the local variables of login end with the call
Locals(p, a) == att' = IF pc'[p] = "idle" THEN NoAtt ELSE a

\* a caller calls login and reaches `async with self._lock`
CallLogin(p) ==
    /\ pc[p] = "idle"
    /\ pc' = [pc EXCEPT ![p] = "lg_wait"]
    /\ ret' = [ret EXCEPT ![p] = [NoRet EXCEPT !.op = "login", !.kind = "pending"]]
    /\ ev' = [proc |-> p, act |-> "call_login", io |-> {}, cand |-> None]
    /\ log' = [log EXCEPT ![p] = <<>>]
    /\ resp' = NoResp
    /\ UNCHANGED <<chat, token_data, file, lock, cookies, now, issued, invalidated, completed, att>>

\* a test that looks at memory only
AlreadyLoggedIn_MemOnly(mem, loaded) == mem # None

\* login's test `self._token_data or self._load_token()`
AlreadyLoggedIn(mem, loaded) == mem # None \/ loaded # None

\* login from the lock to its first await: the test for an existing
\* credential, PKCE generation, and the authorization request sent
login(p) ==
    /\ pc[p] = "lg_wait"
    /\ CanAcquire(p)
    /\ LET ld == IF token_data # None
                 THEN [ret |-> None, raise |-> "", file |-> file]
                 ELSE load_token(file, now)
           io == IF token_data # None THEN <<>> ELSE <<"load">>
       IN  IF ld.raise # ""
           THEN /\ EndLogin(p, LoginError(ld.raise, ""), "login", io)
                /\ UNCHANGED file
           ELSE IF AlreadyLoggedIn(token_data, ld.ret)
           THEN /\ EndLogin(p, LoginReturn("noop", IF token_data # None THEN token_data
                                                   ELSE ld.ret), "login", io)
                /\ file' = ld.file
           ELSE /\ Proceed(p, "await_auth", "login", io \o <<"pkce", "auth_get">>)
                /\ file' = ld.file
    /\ \E v \in Verifiers :
         LET pk == generate_pkce(v)
         IN  Locals(p, [NoAtt EXCEPT !.verifier = pk.verifier, !.challenge = pk.challenge,
                                     !.sent_challenge = pk.challenge])
    /\ resp' = NoResp
    /\ UNCHANGED <<chat, token_data, cookies, now, issued, invalidated, completed>>

\* _request_otp after the authorization endpoint answered, or the transport
\* failed (httpx raises, a timeout included); a response may set 'kbtc'
request_otp(p) ==
    /\ pc[p] = "await_auth"
    /\ \/ /\ EndLogin(p, LoginError("TransportError", ""), "request_otp", <<>>)
          /\ resp' = TransportFailure
          /\ UNCHANGED cookies
       \/ \E page \in {"status", "no_tags", "no_attr", "page"}, set_cookie \in BOOLEAN :
            /\ resp' = [page |-> page, set_cookie |-> set_cookie]
            /\ cookies' = (cookies \/ set_cookie)
            /\ CASE page = "status" ->
                      EndLogin(p, LoginError("AuthenticationError", "otp_page_status"),
                               "request_otp", <<>>)
                 [] page = "no_tags" ->
                      EndLogin(p, LoginError("AuthenticationError", "no_csrf_or_psid"),
                               "request_otp", <<>>)
                 [] page = "no_attr" ->
                      EndLogin(p, LoginError("KeyError", ""), "request_otp", <<>>)
                 [] page = "page" /\ ~cookies' ->
                      EndLogin(p, LoginError("AuthenticationError", "no_kbtc_cookie"),
                               "request_otp", <<>>)
                 [] page = "page" /\ cookies' ->
                      Proceed(p, "await_otp", "request_otp", <<"otp_callback">>)
    /\ \E tk \in PageTokens :
         Locals(p, [att EXCEPT !.csrf = tk.csrf, !.psid = tk.psid,
                               !.page_csrf = tk.csrf, !.page_psid = tk.psid])
    /\ UNCHANGED <<chat, token_data, file, now, issued, invalidated, completed>>

\* a wait for the OTP that the manager gives up once time has passed
otp_callback_Timeout(p) ==
    /\ pc[p] = "await_otp"
    /\ \/ Proceed(p, "await_submit", "otp_callback", <<"otp_post">>)
       \/ /\ now > 0
          /\ EndLogin(p, LoginError("TimeoutError", ""), "otp_callback", <<>>)
    /\ Locals(p, [att EXCEPT !.sent_csrf = OtpRequest(att).csrf,
                             !.sent_psid = OtpRequest(att).psid])
    /\ resp' = NoResp
    /\ UNCHANGED <<chat, token_data, file, cookies, now, issued, invalidated, completed>>

\* the OTP callback resolves and _submit_otp posts the code
otp_callback(p) ==
    /\ pc[p] = "await_otp"
    /\ Proceed(p, "await_submit", "otp_callback", <<"otp_post">>)
    /\ Locals(p, [att EXCEPT !.sent_csrf = OtpRequest(att).csrf,
                             !.sent_psid = OtpRequest(att).psid])
    /\ resp' = NoResp
    /\ UNCHANGED <<chat, token_data, file, cookies, now, issued, invalidated, completed>>

\* the answers of the OTP-submission endpoint: the status, what the body is,
\* what its 'json' field holds and what its 'html' field holds
SubmitResponses ==
    {[status |-> 200, body |-> "object", nested |-> n, html |-> h] :
        n \in {"empty", "null", "bad_json", "non_object", "not_str", "no_redirect",
               "redirect"},
        h \in {"empty", "invalid_code", "inline_msg", "other"}}
      \cup {[status |-> 200, body |-> b, nested |-> "empty", html |-> "empty"] :
              b \in {"not_json", "non_object"}}
      \cup {[status |-> 500, body |-> "object", nested |-> "empty", html |-> "empty"]}

\* a reading that goes by the status alone
submit_otp_parse_StatusOnly(r) ==
    IF r.status # 200
    THEN [raise |-> "AuthenticationError", msg |-> "unexpected_status"]
    ELSE [raise |-> "", msg |-> ""]

\* _submit_otp's reading of the POST response, in the code's order: the
\* exception raised and its message, or "" to go on to the redirect GET
submit_otp_parse(r) ==
    CASE r.status # 200 ->
           [raise |-> "AuthenticationError", msg |-> "unexpected_status"]
      [] r.status = 200 /\ r.body = "not_json" ->
           [raise |-> "AuthenticationError", msg |-> "parse_failed"]
      [] r.status = 200 /\ r.body = "non_object" ->
           [raise |-> "AttributeError", msg |-> ""]
      [] r.status = 200 /\ r.body = "object" ->
           IF r.nested \in {"empty", "null"} /\ r.html # "empty"
           THEN CASE r.html = "invalid_code" ->
                       [raise |-> "AuthenticationError", msg |-> "incorrect_or_expired"]
                  [] r.html = "inline_msg" ->
                       [raise |-> "AuthenticationError", msg |-> "inline_message_text"]
                  [] r.html = "other" ->
                       [raise |-> "AuthenticationError", msg |-> "generic_html_failure"]
           ELSE CASE r.nested \in {"empty", "bad_json"} ->
                       [raise |-> "AuthenticationError", msg |-> "parse_failed"]
                  [] r.nested \in {"null", "not_str"} ->
                       [raise |-> "TypeError", msg |-> ""]
                  [] r.nested = "non_object" ->
                       [raise |-> "AttributeError", msg |-> ""]
                  [] r.nested = "no_redirect" ->
                       [raise |-> "AuthenticationError", msg |-> "not_valid_redirect"]
                  [] r.nested = "redirect" ->
                       [raise |-> "", msg |-> ""]

\* _submit_otp after the OTP endpoint answered (or the transport failed): on a
\* success envelope the redirect location is requested
submit_otp(p) ==
    /\ pc[p] = "await_submit"
    /\ \/ /\ EndLogin(p, LoginError("TransportError", ""), "submit_otp", <<>>)
          /\ resp' = TransportFailure
       \/ \E r \in SubmitResponses :
            LET res == submit_otp_parse(r)
            IN  /\ resp' = r
                /\ IF res.raise # ""
                   THEN EndLogin(p, LoginError(res.raise, res.msg), "submit_otp", <<>>)
                   ELSE Proceed(p, "await_redirect", "submit_otp", <<"redirect_get">>)
    /\ Locals(p, att)
    /\ UNCHANGED <<chat, token_data, file, cookies, now, issued, invalidated, completed>>

\* the query of the final URL after redirects: its error and code parameters
\* (absent, present with a blank value, or present with a value)
FinalUrls ==
    {[error |-> e, code |-> c] : e \in {"none", "blank", "access_denied", "server_error"},
                                 c \in {"none", "blank", "ABC123", "XYZ789"}}

\* a reading that hands back the first code it ever saw
redirect_parse_Fixed(u) ==
    IF u.error \notin {"none", "blank"}
    THEN [raise |-> "AuthenticationError", msg |-> u.error, code |-> ""]
    ELSE IF u.code \in {"none", "blank"}
    THEN [raise |-> "AuthenticationError", msg |-> "no_code", code |-> ""]
    ELSE [raise |-> "", msg |-> "", code |-> "ABC123"]

\* a reading that looks for the code before it looks for an error
redirect_parse_CodeFirst(u) ==
    IF u.code \notin {"none", "blank"}
    THEN [raise |-> "", msg |-> "", code |-> u.code]
    ELSE IF u.error \notin {"none", "blank"}
    THEN [raise |-> "AuthenticationError", msg |-> u.error, code |-> ""]
    ELSE [raise |-> "AuthenticationError", msg |-> "no_code", code |-> ""]

\* _submit_otp's reading of the final URL; parse_qs drops blank values
redirect_parse(u) ==
    IF u.error \notin {"none", "blank"}
    THEN [raise |-> "AuthenticationError", msg |-> u.error, code |-> ""]
    ELSE IF u.code \in {"none", "blank"}
    THEN [raise |-> "AuthenticationError", msg |-> "no_code", code |-> ""]
    ELSE [raise |-> "", msg |-> "", code |-> u.code]

\* _submit_otp after the redirect chain ended (or the transport failed): with
\* a code, login goes on to post the token exchange
submit_otp_redirect(p) ==
    /\ pc[p] = "await_redirect"
    /\ \/ /\ EndLogin(p, LoginError("TransportError", ""), "submit_otp_redirect", <<>>)
          /\ resp' = TransportFailure
          /\ Locals(p, att)
       \/ \E u \in FinalUrls :
            LET res == redirect_parse(u)
                got == [att EXCEPT !.code = res.code]
            IN  /\ resp' = u
                /\ IF res.raise # ""
                   THEN EndLogin(p, LoginError(res.raise, res.msg), "submit_otp_redirect",
                                 <<>>)
                   ELSE Proceed(p, "await_token", "submit_otp_redirect", <<"token_post">>)
                /\ Locals(p, [got EXCEPT !.sent_code = TokenRequest(got).code,
                                         !.sent_verifier = TokenRequest(got).verifier])
    /\ UNCHANGED <<chat, token_data, file, cookies, now, issued, invalidated, completed>>

\* the access token of the n-th credential the provider issues
TokStr(n) == "t" \o ToString(n)

\* the JSON objects the token endpoint may answer with when it has issued n
\* credentials: a fresh access token, a lifetime, and with or without a
\* created_at of the server's own
TokenBodies(n) ==
    LET full(e) == [access_token  |-> JStr(TokStr(n + 1)),
                    expires_in    |-> JNum(e),
                    id_token      |-> JStr("id"),
                    refresh_token |-> JStr("rf"),
                    scope         |-> JStr("openid"),
                    token_type    |-> JStr("bearer"),
                    created_at    |-> JNum(0)]
    IN  {full(e) : e \in ExpiresIn}
          \cup {Without(full(e), "created_at") : e \in ExpiresIn}
          \cup {Without(full(e), "refresh_token") : e \in ExpiresIn}

\* _exchange_code_for_token after the token endpoint answered (or the
\* transport failed), and on success the rest of login: the record is put in
\* memory, then written to the token file
exchange_code_for_token(p) ==
    /\ pc[p] = "await_token"
    /\ \/ /\ EndLogin(p, LoginError("TransportError", ""), "exchange", <<>>)
          /\ resp' = TransportFailure
          /\ UNCHANGED <<token_data, file, issued, completed>>
       \/ /\ EndLogin(p, LoginError("AuthenticationError", "token_exchange_failed"),
                      "exchange", <<>>)
          /\ resp' = [kind |-> "status"]
          /\ UNCHANGED <<token_data, file, issued, completed>>
       \/ \E bad \in {"JSONDecodeError", "TypeError"} :
            /\ EndLogin(p, LoginError(bad, ""), "exchange", <<>>)
            /\ resp' = [kind |-> "bad_body"]
            /\ UNCHANGED <<token_data, file, issued, completed>>
       \/ /\ issued < MaxLogins
          /\ \E body \in TokenBodies(issued) :
               IF ~TokenDataValid(body)
               THEN /\ EndLogin(p, LoginError("ValidationError", ""), "exchange", <<>>)
                    /\ resp' = [body |-> body]
                    /\ UNCHANGED <<token_data, file, issued, completed>>
               ELSE \E how \in SaveOutcomes :
                      LET r  == TokenData(body, now)
                          sv == save_token(r, file, how)
                      IN  /\ token_data' = r
                          /\ resp' = [body |-> body]
                          /\ file' = sv.file
                          /\ issued' = issued + 1
                          /\ IF sv.raise # ""
                             THEN /\ EndLogin(p, LoginError(sv.raise, ""), "exchange",
                                              <<"save">>)
                                  /\ UNCHANGED completed
                             ELSE /\ EndLogin(p, LoginReturn("ok", r), "exchange",
                                              <<"save">>)
                                  /\ completed' = completed \cup {r.access_token}
    /\ att' = NoAtt
    /\ UNCHANGED <<chat, cookies, now, invalidated>>

\* time passes
Tick ==
    /\ now < MaxTime
    /\ now' = now + 1
    /\ ev' = [proc |-> "", act |-> "tick", io |-> {}, cand |-> None]
    /\ resp' = NoResp
    /\ UNCHANGED <<chat, token_data, file, lock, cookies, pc, ret, issued, invalidated,
                   completed, log, att>>

Next ==
    \/ \E p \in Procs :
         \/ CallGetToken(p)
         \/ get_token(p)
         \/ CallLogin(p)
         \/ login(p)
         \/ request_otp(p)
         \/ otp_callback(p)
         \/ submit_otp(p)
         \/ submit_otp_redirect(p)
         \/ exchange_code_for_token(p)
    \/ Tick

Spec == Init /\ [][Next]_vars

(***************************************************************************)
(* Two login calls, both already made, on a manager with no credential in  *)
(* memory or in the token file.                                            *)
(***************************************************************************)
InitTwoLogins ==
    /\ token_data = None
    /\ file \in {f \in InitFiles : f.kind # "object"}
    /\ lock = "free"
    /\ cookies = FALSE
    /\ pc = [p \in Procs |-> "lg_wait"]
    /\ ret = [p \in Procs |-> [NoRet EXCEPT !.op = "login", !.kind = "pending"]]
    /\ now = 0
    /\ issued = 0
    /\ invalidated = {}
    /\ completed = {}
    /\ log = [p \in Procs |-> <<>>]
    /\ resp = NoResp
    /\ att = NoAtt
    /\ chat = NoChat
    /\ ev = NoEv

NextTwoLogins ==
    \/ \E p \in Procs :
         \/ login(p)
         \/ request_otp(p)
         \/ otp_callback(p)
         \/ submit_otp(p)
         \/ submit_otp_redirect(p)
         \/ exchange_code_for_token(p)
    \/ Tick

SpecTwoLogins == InitTwoLogins /\ [][NextTwoLogins]_vars

(***************************************************************************)
(* Authenticated API requests (HttpManager._request) next to the calls on  *)
(* the session manager.                                                    *)
(***************************************************************************)
\* a caller makes an authenticated request: _request awaits get_token first
CallRequest(p) ==
    /\ pc[p] = "idle"
    /\ pc' = [pc EXCEPT ![p] = "rq_wait"]
    /\ ret' = [ret EXCEPT ![p] = [NoRet EXCEPT !.op = "request", !.kind = "pending"]]
    /\ ev' = [proc |-> p, act |-> "call_request", io |-> {}, cand |-> None]
    /\ log' = [log EXCEPT ![p] = <<>>]
    /\ resp' = NoResp
    /\ UNCHANGED <<chat, token_data, file, lock, cookies, now, issued, invalidated, completed, att>>

\* a test that lets every request through
NotLoggedIn_Never(r) == FALSE

\* `if not token` on what get_token returned
NotLoggedIn(r) == r.kind = "none"

\* the authorization header built from a record
BearerHeader(tok) == "Bearer " \o tok.access_token

\* _request after get_token has returned or raised: without a record it
\* raises before anything is sent, with one it sends the request with the
\* bearer header of that record
request(p) ==
    /\ pc[p] = "rq_token"
    /\ LET r == ret[p]
       IN  IF r.kind = "error"
           THEN /\ ret' = [ret EXCEPT ![p] = [r EXCEPT !.op = "request"]]
                /\ ev' = [proc |-> p, act |-> "request", io |-> {}, cand |-> None]
                /\ UNCHANGED log
           ELSE IF NotLoggedIn(r)
           THEN /\ ret' = [ret EXCEPT ![p] =
                            [op |-> "request", kind |-> "error",
                             err |-> "AuthenticationError", msg |-> "not_logged_in",
                             tok |-> None]]
                /\ ev' = [proc |-> p, act |-> "request", io |-> {}, cand |-> r.tok]
                /\ UNCHANGED log
           ELSE /\ ret' = [ret EXCEPT ![p] =
                            [op |-> "request", kind |-> "sent", err |-> "",
                             msg |-> IF r.tok = None THEN "" ELSE BearerHeader(r.tok),
                             tok |-> r.tok]]
                /\ ev' = [proc |-> p, act |-> "request", io |-> {"api_request"},
                          cand |-> r.tok]
                /\ log' = [log EXCEPT ![p] = @ \o <<"api_request">>]
    /\ pc' = [pc EXCEPT ![p] = "idle"]
    /\ resp' = NoResp
    /\ UNCHANGED <<chat, token_data, file, lock, cookies, now, issued, invalidated, completed, att>>

NextApi ==
    \/ Next
    \/ \E p \in Procs : CallRequest(p) \/ request(p)

SpecApi == Init /\ [][NextApi]_vars

(***************************************************************************)
(* A ChatSession (client.py): the local history, the two pointers into it  *)
(* and the conversation id, next to the server's copy of the conversation. *)
(* Message ids are positive numbers; 0 stands for None.                    *)
(***************************************************************************)
\* the server issues message ids 1..MaxMsgIds
MaxMsgIds == 7

\* load_history's default limit
DefaultLimit == 50

\* the limits load_history is called with
Limits == {1, 2, DefaultLimit}

Msg(id, role) == [id |-> id, role |-> role]

\* the conversations a session may be attached to when it is constructed
InitServers ==
    {<<>>,
     <<Msg(1, "bot")>>,
     <<Msg(1, "user"), Msg(2, "bot")>>,
     <<Msg(1, "bot"), Msg(2, "user"), Msg(3, "bot")>>}

InitChat ==
    /\ token_data = None
    /\ file = Absent
    /\ lock = "free"
    /\ cookies = FALSE
    /\ pc = [p \in Procs |-> "idle"]
    /\ ret = [p \in Procs |-> NoRet]
    /\ now = 0
    /\ issued = 0
    /\ invalidated = {}
    /\ completed = {}
    /\ log = [p \in Procs |-> <<>>]
    /\ resp = NoResp
    /\ att = NoAtt
    /\ ev = NoEv
    /\ \E attached \in BOOLEAN, h \in InitServers :
         /\ ~attached => h = <<>>
         /\ chat = [NoChat EXCEPT !.conversation_id = attached, !.server = h,
                                  !.next_id = Len(h) + 1]

\* the id of the last message of h with role "user" (isUser) or with any other
\* role (~isUser); 0 when h has none
LastOf(h, isUser) ==
    LET I == {i \in DOMAIN h : (h[i].role = "user") = isUser}
    IN  IF I = {} THEN 0 ELSE h[CHOOSE i \in I : \A j \in I : j <= i].id

\* _update_ids: both pointers are cleared on an empty history; otherwise each
\* is set to the last message of its role, and left as it is when the history
\* has no such message
update_ids(c) ==
    LET h == c.history_objs
    IN  IF h = <<>>
        THEN [c EXCEPT !.last_user_message_id = 0, !.last_bot_message_id = 0]
        ELSE [c EXCEPT !.last_bot_message_id =
                           IF LastOf(h, FALSE) # 0 THEN LastOf(h, FALSE) ELSE @,
                       !.last_user_message_id =
                           IF LastOf(h, TRUE) # 0 THEN LastOf(h, TRUE) ELSE @]

\* h without the messages whose id is in ids
Remove(h, ids) == SelectSeq(h, LAMBDA m : m.id \notin ids)

\* h with its last message replaced by r when that message is not the user's,
\* and with r appended otherwise
ReplaceLastBot(h, r) ==
    IF h # <<>> /\ h[Len(h)].role # "user"
    THEN [h EXCEPT ![Len(h)] = r]
    ELSE h \o <<r>>

ChatFrame ==
    UNCHANGED <<token_data, file, lock, cookies, pc, ret, now, issued, invalidated,
                completed, log, resp, att>>

ChatEv(act) == ev' = [proc |-> "", act |-> act, io |-> {}, cand |-> None]

\* load_history: the last `limit` messages of the conversation, oldest first;
\* the pointers are refreshed only when something came back
load_history(limit) ==
    /\ chat.conversation_id
    /\ LET n    == Len(chat.server)
           k    == IF limit < n THEN limit ELSE n
           msgs == SubSeq(chat.server, n - k + 1, n)
           c    == [chat EXCEPT !.history_objs = msgs]
       IN  chat' = IF msgs # <<>> THEN update_ids(c) ELSE c
    /\ ChatEv("load_history")
    /\ ChatFrame

\* send: the server stores the user's message and its answer (in a new
\* conversation when the session has none); both are appended locally
send ==
    /\ chat.next_id + 1 <= MaxMsgIds
    /\ LET u   == Msg(chat.next_id, "user")
           b   == Msg(chat.next_id + 1, "bot")
           srv == IF chat.conversation_id THEN chat.server ELSE <<>>
       IN  chat' = update_ids([chat EXCEPT !.conversation_id = TRUE,
                                           !.history_objs = @ \o <<u, b>>,
                                           !.server = srv \o <<u, b>>,
                                           !.next_id = @ + 2])
    /\ ChatEv("send")
    /\ ChatFrame

\* regenerate: refused locally without a conversation or a last user message;
\* the new answer replaces the last message when that is not the user's
regenerate ==
    /\ chat.conversation_id
    /\ chat.last_user_message_id # 0
    /\ chat.next_id <= MaxMsgIds
    /\ LET r == Msg(chat.next_id, "bot")
           h == chat.history_objs
           c == [chat EXCEPT !.history_objs = ReplaceLastBot(h, r),
                             !.server = ReplaceLastBot(@, r),
                             !.next_id = @ + 1]
       IN  chat' = IF h # <<>> /\ h[Len(h)].role # "user"
                   THEN [c EXCEPT !.last_bot_message_id = r.id]
                   ELSE update_ids(c)
    /\ ChatEv("regenerate")
    /\ ChatFrame

\* undo: asks the server to delete the messages the two pointers name, drops
\* them from the local history and refreshes the pointers
undo ==
    /\ chat.conversation_id
    /\ LET ids == {chat.last_bot_message_id, chat.last_user_message_id} \ {0}
       IN  /\ ids # {}
           /\ chat' = update_ids([chat EXCEPT !.history_objs = Remove(@, ids),
                                              !.server = Remove(@, ids),
                                              !.redeleted = @ \cup (ids \cap chat.deleted),
                                              !.deleted = @ \cup ids])
    /\ ChatEv("undo")
    /\ ChatFrame

\* reset: the conversation is forgotten
reset ==
    /\ chat' = [chat EXCEPT !.conversation_id = FALSE, !.history_objs = <<>>,
                            !.last_user_message_id = 0, !.last_bot_message_id = 0]
    /\ ChatEv("reset")
    /\ ChatFrame

NextChat ==
    \/ \E limit \in Limits : load_history(limit)
    \/ send
    \/ regenerate
    \/ undo
    \/ reset

SpecChat == InitChat /\ [][NextChat]_vars

(***************************************************************************)
(* The two login calls under the scheduling the code relies on.            *)
(***************************************************************************)
\* a client without a timeout: a request may stay unanswered for ever
NetworkFairness_NoTimeout == TRUE

\* every request of the handshake ends, in a response or in a transport
\* failure: the client is built with timeout=30.0
NetworkFairness ==
    \A p \in Procs :
        /\ WF_vars(request_otp(p))
        /\ WF_vars(submit_otp(p))
        /\ WF_vars(submit_otp_redirect(p))
        /\ WF_vars(exchange_code_for_token(p))

\* the caller's OTP callback resolves
CallbackResolves == \A p \in Procs : WF_vars(otp_callback(p))

\* asyncio.Lock wakes its waiters first come, first served: a caller that
\* waits for the lock gets it once the holders before it have released it
LockFairness == \A p \in Procs : SF_vars(login(p))

SpecTwoLoginsLive ==
    /\ InitTwoLogins
    /\ [][NextTwoLogins]_vars
    /\ NetworkFairness
    /\ CallbackResolves
    /\ LockFairness

(***************************************************************************)
(* The token store on its own: _save_token and _load_token applied to      *)
(* records and files drawn from bounded sets.  token_data holds the record *)
(* last saved, ev.cand what the last load returned.                        *)
(***************************************************************************)
StoreRecords ==
    {[access_token |-> a, expires_in |-> e, id_token |-> i, refresh_token |-> rf,
      scope |-> sc, token_type |-> tt, created_at |-> c] :
        a \in {"t0", "t1"}, e \in ExpiresIn, i \in {"id", "id2"}, rf \in {"rf", "rf2"},
        sc \in {"openid", "openid profile"}, tt \in {"bearer", "Bearer"},
        c \in 0..MaxTime}

StoreSave(r) ==
    /\ token_data' = r
    /\ file' = save_token(r, file, "ok").file
    /\ ev' = [proc |-> "", act |-> "store_save", io |-> {"save"}, cand |-> None]
    /\ UNCHANGED <<chat, lock, cookies, pc, ret, now, issued, invalidated, completed, log,
                   resp, att>>

StoreLoad ==
    /\ LET ld == load_token(file, now)
       IN  /\ file' = ld.file
           /\ ev' = [proc |-> "", io |-> {"load"}, cand |-> ld.ret,
                     act |-> IF ld.raise = "" THEN "store_load" ELSE "store_load_raised"]
    /\ UNCHANGED <<chat, token_data, lock, cookies, pc, ret, now, issued, invalidated,
                   completed, log, resp, att>>

NextStore ==
    \/ \E r \in StoreRecords : StoreSave(r)
    \/ StoreLoad
    \/ Tick

SpecStore == Init /\ [][NextStore]_vars

(***************************************************************************)
(* Properties.                                                             *)
(***************************************************************************)
\* the validity rule as the specification words it: strictly inside the margin
SpecValid(r, t) == t - r.created_at < r.expires_in - MARGIN

\* the last step was a get_token call that ran its body
GetTokenRan == ev.act = "get_token"

\* C1: get_token returns the record it holds (in memory or loaded from the
\* token file) if and only if now - created_at < expires_in - 300; at exactly
\* the boundary the record counts as expired and get_token returns absent.
C1_StrictBoundary ==
    (GetTokenRan /\ ev.cand # None) =>
        ((ret[ev.proc].kind = "token" /\ ret[ev.proc].tok = ev.cand)
            <=> SpecValid(ev.cand, now))

\* C2: when get_token finds the record expired it returns absent and leaves
\* memory and the token file empty; a record found expired is never again in
\* memory or in the file, and no later get_token returns it.
C2_ExpiredInvalidated ==
    /\ (GetTokenRan /\ ev.cand # None /\ Expired(ev.cand, now)) =>
          /\ ret[ev.proc].kind = "none"
          /\ token_data = None
          /\ file = Absent
    /\ (GetTokenRan /\ ret[ev.proc].kind = "token") =>
          ret[ev.proc].tok.access_token \notin invalidated
    /\ \A id \in invalidated :
          /\ token_data # None => token_data.access_token # id
          /\ (file.kind = "object" /\ "access_token" \in DOMAIN file.obj) =>
                file.obj["access_token"].s # id

\* a get_token call after an invalidation finds nothing and returns absent
C2_Witness ==
    /\ GetTokenRan
    /\ invalidated # {}
    /\ ev.cand = None
    /\ ret[ev.proc].kind = "none"
    /\ "remove" \notin ev.io

\* a credential the specification calls valid is in memory or in the file
ValidCredentialExists ==
    \/ token_data # None /\ SpecValid(token_data, now)
    \/ /\ file.kind = "object"
       /\ TokenDataValid(file.obj)
       /\ SpecValid(TokenData(file.obj, now), now)

\* C3: a login call entered while a valid credential exists in memory or in
\* the token file ends at once without error, does no network I/O and no OTP
\* callback, and leaves memory and the token file as they were.
C3_LoginNoOp ==
    [][\A p \in Procs :
         (pc[p] = "lg_wait" /\ pc'[p] # "lg_wait" /\ ValidCredentialExists) =>
            /\ pc'[p] = "idle"
            /\ ret'[p].kind = "noop"
            /\ ev'.io \subseteq {"load"}
            /\ log'[p] \in {<<>>, <<"load">>}
            /\ token_data' = token_data
            /\ file' = file]_vars

\* a login call returned at once on a valid credential held in the file only
C3_Witness ==
    /\ ev.act = "login"
    /\ ret[ev.proc].kind = "noop"
    /\ token_data = None
    /\ SpecValid(ret[ev.proc].tok, now)
    /\ ev.io = {"load"}

\* the positions of a login call inside the handshake
InHandshake == {"await_auth", "await_otp", "await_submit", "await_redirect", "await_token"}

\* C5: at most one login call is inside the handshake, and it holds the lock.
C5_OneHandshake ==
    /\ Cardinality({p \in Procs : pc[p] \in InHandshake}) <= 1
    /\ \A p \in Procs : pc[p] \in InHandshake => lock = p

\* one caller awaits the token endpoint while another login waits for the lock
C5_Witness ==
    \E p, q \in Procs : p # q /\ pc[p] = "await_token" /\ pc[q] = "lg_wait"

\* the handshake part of a call's I/O
HandshakeOf(q) == SelectSeq(q, LAMBDA e : e \notin {"load", "remove"})

FullHandshake ==
    <<"pkce", "auth_get", "otp_callback", "otp_post", "redirect_get", "token_post", "save">>

\* C4: of two concurrent login calls on a manager with no credential, at most
\* one reaches the token exchange and the save; when both have returned
\* without error, exactly one of them ran the handshake (each step once, in
\* order) and the other did no handshake I/O and returned on the credential
\* the first produced.
C4_SingleHandshake ==
    /\ issued <= 1
    /\ Cardinality({p \in Procs : "save" \in Range(log[p])}) <= 1
    /\ (\A p \in Procs : pc[p] = "idle" /\ ret[p].kind \in {"ok", "noop"}) =>
          \E p \in Procs :
             /\ ret[p].kind = "ok"
             /\ HandshakeOf(log[p]) = FullHandshake
             /\ ret[p].tok = token_data
             /\ \A q \in Procs \ {p} :
                  /\ ret[q].kind = "noop"
                  /\ HandshakeOf(log[q]) = <<>>
                  /\ ret[q].tok = ret[p].tok

\* both calls have returned without error
C4_Witness ==
    /\ \A p \in Procs : pc[p] = "idle" /\ ret[p].kind \in {"ok", "noop"}
    /\ \E p \in Procs : ret[p].kind = "noop"

\* file f holds record r (every field f has is r's)
HoldsRecord(f, r) ==
    /\ f.kind = "object"
    /\ TokenDataValid(f.obj)
    /\ \A k \in DOMAIN f.obj : f.obj[k] = model_dump_json(r)[k]

\* C6: every record get_token returns is the record in the token file or the
\* record of a login that ran to the end of its save.
C6_NoHalfWritten ==
    (GetTokenRan /\ ret[ev.proc].kind = "token") =>
        \/ HoldsRecord(file, ret[ev.proc].tok)
        \/ ret[ev.proc].tok.access_token \in completed

\* the steps of login after the authorization request was sent
HandshakeActs == {"request_otp", "submit_otp", "submit_otp_redirect", "exchange"}

\* the last step ended a login call inside the handshake with an exception
LoginFailedNow == ev.act \in HandshakeActs /\ ret[ev.proc].kind = "error"

\* C7: a login call that fails at a handshake step (authorization request,
\* OTP submission, redirect fetch, token exchange, save) raises
\* AuthenticationError and nothing else.
C7_OnlyAuthenticationError ==
    LoginFailedNow => ret[ev.proc].err = "AuthenticationError"

\* a file holding a whole credential record
CompleteRecordFile(f) ==
    /\ f.kind = "object"
    /\ TokenDataValid(f.obj)
    /\ "created_at" \in DOMAIN f.obj

\* C8: after a login call failed at a handshake step the token file is absent
\* or holds a whole record, and none from the failed attempt.
C8_NoPartialPersisted ==
    LoginFailedNow =>
        \/ file = Absent
        \/ /\ CompleteRecordFile(file)
           /\ file.obj["access_token"].s \in completed \cup {"t0"}

\* C9: when a call loads a token file that holds no well-formed record, the
\* load returns absent, removes the file and raises nothing: get_token
\* returns absent and login goes on to a fresh handshake.
C9_CorruptFileDropped ==
    [][\A p \in Procs :
         (/\ token_data = None
          /\ file # Absent
          /\ ~(file.kind = "object" /\ TokenDataValid(file.obj))
          /\ \/ pc[p] = "lg_wait" /\ pc'[p] # "lg_wait"
             \/ pc[p] = "gt_wait" /\ pc'[p] # "gt_wait") =>
            /\ file' = Absent
            /\ ret'[p].kind # "error"
            /\ pc[p] = "lg_wait" => pc'[p] = "await_auth"
            /\ pc[p] = "gt_wait" => ret'[p].kind = "none"]_vars

NetworkIO == {"auth_get", "otp_post", "redirect_get", "token_post"}

\* C11: get_token never goes to the network.  Whatever it finds (no credential,
\* a valid one, an expired one, an unreadable file) the call ends having only
\* read or removed the credential file, without a request and without the
\* callback, and it leaves the provider's cookies and the issued tokens alone.
C11_GetTokenLocalOnly ==
    \A p \in Procs :
        ret[p].op = "get_token" /\ ret[p].kind # "pending" =>
            /\ Range(log[p]) \subseteq {"load", "remove"}
            /\ Range(log[p]) \cap (NetworkIO \cup {"otp_callback", "save"}) = {}
            /\ (ev.proc = p /\ ev.act = "get_token") =>
                   (ev.io = Range(log[p]) /\ resp = NoResp)

\* get_token found an expired credential and dropped it, locally
C11_Witness ==
    /\ GetTokenRan
    /\ ev.cand # None
    /\ Expired(ev.cand, now)
    /\ log[ev.proc] = <<"load", "remove">>
    /\ ret[ev.proc].kind = "none"

IsPrefix(a, b) == Len(a) <= Len(b) /\ a = SubSeq(b, 1, Len(a))

\* how far into the handshake a login call is at each of its awaits
StepsDone(at) ==
    CASE at = "await_auth"     -> 2
      [] at = "await_otp"      -> 3
      [] at = "await_submit"   -> 4
      [] at = "await_redirect" -> 5
      [] at = "await_token"    -> 6

\* the step just taken went on to the next one on a good outcome only
StepSucceeded ==
    CASE ev.act = "request_otp" ->
           resp \in [page : {"page"}, set_cookie : BOOLEAN] /\ cookies
      [] ev.act = "submit_otp" ->
           resp \in SubmitResponses /\ resp.status = 200 /\ resp.nested = "redirect"
      [] ev.act = "submit_otp_redirect" ->
           resp \in FinalUrls /\ resp.code \in {"ABC123", "XYZ789"}
      [] OTHER -> TRUE

\* C12: a login attempt takes its steps in one fixed order: PKCE generation,
\* authorization-page request, OTP callback, OTP submission, redirect fetch,
\* token exchange, save.  At every moment the I/O of the call is a prefix of
\* that sequence (after the read of the token file), the call waits exactly at
\* the end of that prefix, a step is started only when the one before it had a
\* good outcome, and a save only follows a token endpoint's valid answer.
C12_FixedOrder ==
    \A p \in Procs :
        ret[p].op = "login" =>
            LET h == HandshakeOf(log[p])
            IN  /\ IsPrefix(h, FullHandshake)
                /\ log[p] \in {h, <<"load">> \o h}
                /\ pc[p] \in InHandshake => Len(h) = StepsDone(pc[p])
                /\ pc[p] = "lg_wait" => log[p] = <<>>
                /\ (ev.proc = p /\ pc[p] \in InHandshake) => StepSucceeded
                /\ (ev.proc = p /\ "save" \in ev.io) =>
                       (\E n \in 0..MaxLogins : resp.body \in TokenBodies(n))
                           /\ TokenDataValid(resp.body)

\* a login went through all seven steps and returned
C12_Witness ==
    \E p \in Procs :
        /\ ret[p].kind = "ok"
        /\ log[p] = <<"load">> \o FullHandshake
        /\ ev.proc = p /\ ev.act = "exchange"

Count(q, e) == Cardinality({i \in DOMAIN q : q[i] = e})

\* within one login call nothing is done twice, and a call that failed is over
C13_OnceEach ==
    \A p \in Procs :
        ret[p].op = "login" =>
            /\ \A e \in NetworkIO \cup {"pkce", "otp_callback", "save", "load"} :
                   Count(log[p], e) <= 1
            /\ ret[p].kind = "error" => (pc[p] = "idle" /\ lock # p)
            /\ (ev.proc = p /\ ret[p].kind = "error") =>
                   /\ ev.io \cap (NetworkIO \cup {"otp_callback"}) = {}
                   /\ "save" \in ev.io => ret[p].err = "OSError"

\* a failed call does nothing more: its I/O stays as it was at the failure
C13_DeadAfterFailure ==
    \A p \in Procs :
        (ret[p].op = "login" /\ ret[p].kind = "error" /\ ret'[p] = ret[p]) =>
            (log'[p] = log[p] /\ pc'[p] = "idle")

\* C13: no automatic retry.  In one login call the authorization endpoint, the
\* OTP-submission endpoint, the redirect location and the token endpoint are
\* each requested at most once and the OTP callback is invoked at most once;
\* once a step has failed, the call is over and performs no further request,
\* callback invocation or save.
C13_NoRetry == []C13_OnceEach /\ [][C13_DeadAfterFailure]_vars

\* a login failed at the OTP submission, after three requests and one callback
C13_Witness ==
    \E p \in Procs :
        /\ ret[p].op = "login" /\ ret[p].kind = "error"
        /\ ev.proc = p /\ ev.act = "submit_otp"
        /\ log[p] = <<"load", "pkce", "auth_get", "otp_callback", "otp_post">>

\* the OTP endpoint's answer to a wrong code: status 200, nothing in the nested
\* JSON field, and the invalid-confirmation-code phrase in the HTML fragment
InvalidCodeResponse ==
    [status |-> 200, body |-> "object", nested |-> "empty", html |-> "invalid_code"]

\* C14: when the OTP submission is answered with status 200, an empty nested
\* JSON field and HTML holding the invalid-confirmation-code phrase, submit_otp
\* fails with AuthenticationError and the login call ends there: no redirect
\* GET, no token exchange, no save, no record stored.
C14_InvalidCodeStops ==
    (ev.act = "submit_otp" /\ resp = InvalidCodeResponse) =>
        LET p == ev.proc
        IN  /\ ret[p].kind = "error"
            /\ ret[p].err = "AuthenticationError"
            /\ ret[p].msg = "incorrect_or_expired"
            /\ pc[p] = "idle"
            /\ Range(log[p]) \cap {"redirect_get", "token_post", "save"} = {}
            /\ log[p][Len(log[p])] = "otp_post"

\* a login was answered with the invalid-code page
C14_Witness ==
    /\ ev.act = "submit_otp"
    /\ resp = InvalidCodeResponse
    /\ ret[ev.proc].err = "AuthenticationError"
    /\ token_data = None

\* a query parameter that parse_qs reports: present with a non-blank value
HasValue(v) == v \notin {"none", "blank"}

\* C15: on a success envelope submit_otp requests the redirect location, once;
\* when the final URL reports no error, it returns exactly the value of that
\* URL's code parameter (the value login then sends to the token endpoint),
\* and it fails with AuthenticationError when the URL gives no code.
C15_ReturnsTheCode ==
    /\ (ev.act = "submit_otp" /\ resp \in SubmitResponses
          /\ resp.status = 200 /\ resp.body = "object" /\ resp.nested = "redirect") =>
            /\ pc[ev.proc] = "await_redirect"
            /\ Count(log[ev.proc], "redirect_get") = 1
    /\ (ev.act = "submit_otp_redirect" /\ resp \in FinalUrls /\ ~HasValue(resp.error)) =>
            LET p == ev.proc
            IN  /\ Count(log[p], "redirect_get") = 1
                /\ IF HasValue(resp.code)
                   THEN /\ pc[p] = "await_token"
                        /\ att.code = resp.code
                        /\ ret[p].kind = "pending"
                   ELSE /\ pc[p] = "idle"
                        /\ ret[p].kind = "error"
                        /\ ret[p].err = "AuthenticationError"
                        /\ att = NoAtt
                        /\ "token_post" \notin Range(log[p])

\* the final URL carried the second of the two codes and submit_otp returned it
C15_Witness ==
    /\ ev.act = "submit_otp_redirect"
    /\ resp = [error |-> "none", code |-> "XYZ789"]
    /\ att.code = "XYZ789"
    /\ pc[ev.proc] = "await_token"

\* C16: when the query of the final URL holds an error value, submit_otp fails
\* with an AuthenticationError whose message carries that value as it came,
\* and no code is returned and no token exchange is posted, also when the same
\* URL carries a code.
C16_ErrorSurfaced ==
    (ev.act = "submit_otp_redirect" /\ resp \in FinalUrls /\ HasValue(resp.error)) =>
        LET p == ev.proc
        IN  /\ pc[p] = "idle"
            /\ ret[p].kind = "error"
            /\ ret[p].err = "AuthenticationError"
            /\ ret[p].msg = resp.error
            /\ att = NoAtt
            /\ "token_post" \notin Range(log[p])

\* the final URL carried both an error and a code
C16_Witness ==
    /\ ev.act = "submit_otp_redirect"
    /\ resp = [error |-> "server_error", code |-> "ABC123"]
    /\ ret[ev.proc].msg = "server_error"

\* the authorization endpoint answered (the transport did not fail)
AuthPages == [page : {"status", "no_tags", "no_attr", "page"}, set_cookie : BOOLEAN]

\* C17: in every login attempt, a later one on the same manager included,
\* request_otp fails with AuthenticationError when the answer has a status
\* other than success, when the page lacks the anti-forgery tag or the hidden
\* session-id field, or when the provider sets no session cookie in this
\* attempt; the OTP callback is not invoked then.
C17_RequestOtpFails ==
    (ev.act = "request_otp" /\ resp \in AuthPages
       /\ (resp.page \in {"status", "no_tags"}
             \/ (resp.page = "page" /\ ~resp.set_cookie))) =>
        LET p == ev.proc
        IN  /\ pc[p] = "idle"
            /\ ret[p].kind = "error"
            /\ ret[p].err = "AuthenticationError"
            /\ "otp_callback" \notin Range(log[p])

\* C18: the record the token exchange produces carries the local time of
\* receipt as created_at, whatever the token endpoint's body says.
C18_StampedAtReceipt ==
    (ev.act = "exchange" /\ "save" \in ev.io) =>
        /\ token_data # None
        /\ token_data.created_at = now

\* what a step does to a login call that awaits the OTP callback: either the
\* call is left exactly as it was, still pending and still holding the lock, or
\* the step is the callback resolving, and the call goes on to post the OTP
C19_WaitsForCallback ==
    \A p \in Procs :
        pc[p] = "await_otp" =>
            \/ /\ pc'[p] = "await_otp"
               /\ ret'[p] = ret[p] /\ ret[p].kind = "pending"
               /\ log'[p] = log[p]
               /\ lock = p /\ lock' = p
            \/ /\ ev'.proc = p /\ ev'.act = "otp_callback"
               /\ pc'[p] = "await_submit"
               /\ ret'[p] = ret[p]
               /\ log'[p] = log[p] \o <<"otp_post">>

\* C19: while the OTP callback has not resolved, the login call stays pending.
\* No passage of time and no step of any other caller ends the wait, moves the
\* call on to the OTP submission or fails it; only the callback's own
\* resolution does.
C19_PendingUntilCallback == [][C19_WaitsForCallback]_vars

\* a login still awaits the callback when the clock has run to its end, and
\* the other caller waits behind it for the lock
C19_Witness ==
    \E p, q \in Procs :
        /\ pc[p] = "await_otp" /\ ret[p].kind = "pending"
        /\ now = MaxTime
        /\ pc[q] = "lg_wait"

\* C20: every request of the login flow ends, in a response or in a transport
\* failure; hence, when the OTP callback resolves, every login call that has
\* been made eventually returns, with success or with an error.
C20_LoginTerminates ==
    \A p \in Procs :
        (pc[p] # "idle") ~> (pc[p] = "idle" /\ ret[p].kind \in {"ok", "noop", "error"})

\* both calls have returned: one ended by a transport failure, the other after
\* a handshake of its own that reached the token endpoint
C20_Witness ==
    /\ \A p \in Procs : pc[p] = "idle"
    /\ \E p, q \in Procs :
         /\ ret[p].err = "TransportError"
         /\ "token_post" \in Range(log[q])

\* the OTP endpoint's success envelope: nested JSON that is an object with
\* action "redirect" and a location
SuccessEnvelope(r) == r.status = 200 /\ r.body = "object" /\ r.nested = "redirect"

\* C21: every answer of the OTP endpoint that is not a success envelope ends
\* submit_otp with AuthenticationError and without a redirect GET, whatever the
\* body is (not JSON, JSON that is not an object, a nested field that is not
\* JSON or not an object, an object without a redirect action or location) and
\* whatever the status; with nothing in the nested field, the HTML decides the
\* message: the invalid-code phrase first, then an inline validation message,
\* then a generic failure.
C21_AlwaysAuthenticationError ==
    (ev.act = "submit_otp" /\ resp \in SubmitResponses /\ ~SuccessEnvelope(resp)) =>
        LET p == ev.proc
        IN  /\ pc[p] = "idle"
            /\ ret[p].kind = "error"
            /\ ret[p].err = "AuthenticationError"
            /\ "redirect_get" \notin Range(log[p])
            /\ (resp.status = 200 /\ resp.body = "object" /\ resp.nested = "empty") =>
                   CASE resp.html = "invalid_code" -> ret[p].msg = "incorrect_or_expired"
                     [] resp.html = "inline_msg"   -> ret[p].msg = "inline_message_text"
                     [] resp.html = "other"        -> ret[p].msg = "generic_html_failure"
                     [] OTHER                      -> TRUE

\* what a get_token step does, seen from the state it starts in: the file is
\* read exactly when memory is empty, and a cached record that has not expired
\* is returned as it is, memory and file left alone
C22_GetTokenStep ==
    \A p \in Procs :
        (pc[p] = "gt_wait" /\ pc'[p] = "idle") =>
            /\ ("load" \in ev'.io) <=> (token_data = None)
            /\ ("load" \in Range(log'[p])) <=> (token_data = None)
            /\ (token_data # None /\ ~Expired(token_data, now)) =>
                   /\ ret'[p].kind = "token"
                   /\ ret'[p].tok = token_data
                   /\ token_data' = token_data
                   /\ file' = file

\* C22: get_token reads the token file only when memory holds no record; a
\* record cached in memory is returned by later calls without the file being
\* consulted, whatever the file holds, until the record expires.
C22_CachedNotReloaded == [][C22_GetTokenStep]_vars

\* get_token returned the cached record while the file holds something else
C22_Witness ==
    /\ GetTokenRan
    /\ ev.io = {}
    /\ ret[ev.proc].kind = "token"
    /\ ret[ev.proc].tok = token_data
    /\ ~HoldsRecord(file, token_data)

\* the values that live only inside one login attempt
AttemptSecrets ==
    Verifiers \cup {Challenge(v) : v \in Verifiers}
        \cup {tk.csrf : tk \in PageTokens} \cup {tk.psid : tk \in PageTokens}

\* C23: a login attempt that reaches the handshake generates one PKCE pair.
\* The verifier posted to the token endpoint is the one whose challenge went
\* out in the same attempt's authorization request; the anti-forgery token and
\* session id posted with the OTP are the ones that attempt's page returned.
\* None of these values is found in the token file or in the stored record,
\* and when no attempt is in progress none of them is held any more.
C23_AttemptScoped ==
    /\ \A p \in Procs :
         ret[p].op = "login" =>
             /\ Count(log[p], "pkce") <= 1
             /\ pc[p] \in InHandshake =>
                    /\ Count(log[p], "pkce") = 1
                    /\ att.verifier \in Verifiers
                    /\ att.sent_challenge = Challenge(att.verifier)
    /\ att.sent_verifier # "" => Challenge(att.sent_verifier) = att.sent_challenge
    /\ att.sent_csrf # "" => (att.sent_csrf = att.page_csrf /\ att.page_csrf # "")
    /\ att.sent_psid # "" => (att.sent_psid = att.page_psid /\ att.page_psid # "")
    /\ (\E p \in Procs : "otp_post" \in Range(log[p]) /\ pc[p] \in InHandshake) =>
           att.sent_csrf # "" /\ att.sent_psid # ""
    /\ (\E p \in Procs : pc[p] = "await_token") => att.sent_verifier # ""
    /\ (\A p \in Procs : pc[p] \notin InHandshake) => att = NoAtt
    /\ file.kind = "object" =>
           /\ DOMAIN file.obj \subseteq StrFields \cup {"expires_in", "created_at"}
           /\ \A k \in DOMAIN file.obj : file.obj[k].s \notin AttemptSecrets
    /\ token_data # None =>
           \A k \in StrFields : token_data[k] \notin AttemptSecrets

\* an attempt posts the verifier of its own pair and the tokens of its own page
C23_Witness ==
    \E p \in Procs :
        /\ pc[p] = "await_token"
        /\ cookies
        /\ att.sent_verifier = "v2" /\ att.sent_challenge = Challenge("v2")
        /\ att.sent_csrf = "c2" /\ att.sent_psid = "s2"
        /\ att.sent_code = "XYZ789"

\* a request that waits to be sent holds what its own get_token call gave
C24_HoldsGetTokenResult ==
    \A p \in Procs :
        pc[p] = "rq_token" =>
            /\ ret[p].op = "get_token"
            /\ ret[p].kind \in {"error", "none", "token"}
            /\ ret[p].kind = "token" <=> ret[p].tok # None
            /\ "api_request" \notin Range(log[p])

\* what _request does with the result of get_token
C24_RequestStep ==
    \A p \in Procs :
        (pc[p] = "rq_token" /\ pc'[p] = "idle") =>
            /\ ret[p].kind = "none" =>
                   /\ ret'[p].kind = "error"
                   /\ ret'[p].err = "AuthenticationError"
                   /\ log'[p] = log[p]
            /\ ret[p].kind = "token" =>
                   /\ ret'[p].kind = "sent"
                   /\ ret'[p].msg = "Bearer " \o ret[p].tok.access_token
                   /\ Count(log'[p], "api_request") = 1
            /\ "api_request" \in Range(log'[p]) => ret[p].kind = "token"

\* C24: an authenticated request is never sent without a credential.  When
\* get_token returns absent, the request raises AuthenticationError and nothing
\* is sent; when it returns a record, the request is sent once, with the bearer
\* header built from the access token of the record that get_token returned to
\* this request; and nothing is sent in any other case.
C24_BearerFromGetToken == []C24_HoldsGetTokenResult /\ [][C24_RequestStep]_vars

\* a request went out with the token its get_token returned, after another
\* caller's get_token had found that record expired and dropped it
C24_Witness ==
    /\ ev.act = "request"
    /\ ret[ev.proc].kind = "sent"
    /\ ret[ev.proc].msg = "Bearer t0"
    /\ token_data = None
    /\ "t0" \in invalidated

\* a call that has been made and waits for the lock
Waiting == {"gt_wait", "lg_wait"}

\* while one caller's login is inside the handshake, a step leaves every other
\* caller's waiting call where it is: not returned, nothing read, nothing done
C25_WaitersStay ==
    \A p, q \in Procs :
        (p # q /\ pc[p] \in InHandshake /\ pc[q] \in Waiting) =>
            /\ lock = p
            /\ pc'[q] = pc[q]
            /\ ret'[q] = ret[q] /\ ret[q].kind = "pending"
            /\ log'[q] = log[q] /\ log[q] = <<>>

\* C25: while a login call holds the lock, awaiting the OTP callback or a
\* network response, no get_token call and no other login call on the same
\* manager completes or makes any progress; such a call can move only in a
\* later step, after that login has returned or failed.
C25_BlockedDuringLogin == [][C25_WaitersStay]_vars

\* a get_token call waits while the other caller's login awaits the token
\* endpoint, and time has passed
C25_Witness ==
    \E p, q \in Procs :
        /\ pc[p] = "await_token"
        /\ pc[q] = "gt_wait" /\ ret[q].kind = "pending"
        /\ now > 0
        /\ lock = p

\* C26: the lock is free whenever no login call is inside the handshake, so
\* also after a login or a get_token that ended with an error at any step.
\* A call that waits for the lock can then take its step at once, and a login
\* made after a failed one starts a handshake of its own from PKCE generation,
\* with none of the earlier attempt's values.  No state is a deadlock of the
\* manager.
C26_LockReleased ==
    /\ lock # "free" => (lock \in Procs /\ pc[lock] \in InHandshake)
    /\ \A p \in Procs :
         /\ pc[p] \in {"idle"} \cup Waiting => lock # p
         /\ (pc[p] \in Waiting /\ \A q \in Procs : pc[q] \notin InHandshake) =>
                /\ lock = "free"
                /\ ENABLED (get_token(p) \/ login(p))
         /\ pc[p] = "await_auth" =>
                /\ HandshakeOf(log[p]) = <<"pkce", "auth_get">>
                /\ att.csrf = "" /\ att.psid = "" /\ att.code = ""

\* one caller's login has failed at the OTP submission; the other caller's
\* login, made since, is in a handshake of its own
C26_Witness ==
    \E p, q \in Procs :
        /\ p # q
        /\ pc[q] = "idle" /\ ret[q].op = "login" /\ ret[q].msg = "incorrect_or_expired"
        /\ pc[p] = "await_auth" /\ lock = p
        /\ log[p] = <<"load", "pkce", "auth_get">>

\* C27: single-slot consistency.  Whenever no call is in progress and memory
\* holds a credential, the token file holds that same record, after any
\* sequence of login and get_token calls, failed ones included.
C27_MemoryMatchesFile ==
    ((\A p \in Procs : pc[p] = "idle") /\ token_data # None) =>
        HoldsRecord(file, token_data)

\* what a get_token call made now would find: a record, in memory or else in
\* the token file, that has not expired
UsableNow ==
    LET ld   == load_token(file, now)
        cand == IF token_data # None THEN token_data ELSE ld.ret
    IN  /\ token_data = None => ld.raise = ""
        /\ cand # None
        /\ ~Expired(cand, now)

\* the last step was a login call returning without an error
LoginReturnedNow ==
    /\ ev.act \in {"login", "exchange"}
    /\ ret[ev.proc].op = "login"
    /\ ret[ev.proc].kind \in {"ok", "noop"}

\* C28: when a login call returns without an error, a usable credential is
\* there: a get_token made at that moment returns a record, whatever the
\* manager held when login was called.
C28_LoginLeavesUsable == LoginReturnedNow => UsableNow

\* C29: after any sequence of ChatSession operations each pointer is unset or
\* names the most recent message of its role in the local history (the user's
\* for last_user_message_id, any other for last_bot_message_id), and no undo
\* asks the server to delete a message that an earlier undo has deleted.
C29_PointersCurrent ==
    /\ chat.last_user_message_id \in {0, LastOf(chat.history_objs, TRUE)}
    /\ chat.last_bot_message_id \in {0, LastOf(chat.history_objs, FALSE)}
    /\ chat.redeleted = {}

=========================================================================
